---- MODULE Spec2Model ----
(***************************************************************************)
(* The recipe catalog API of src/server.js (express handlers over five     *)
(* mongoose collections).  The variables are the document store and the    *)
(* position and locals of the request handlers.  A handler that awaits the *)
(* store more than once takes one step per await, so that other requests   *)
(* interleave between its steps; a handler with one store call is a single *)
(* step.                                                                   *)
(***************************************************************************)
EXTENDS Integers, Sequences, FiniteSets, TLC

VARIABLES
    recipes,        \* Recipe collection: _id -> document
    ingredients,    \* Ingredient collection
    units,          \* Unit collection
    users,          \* User collection
    comments,       \* Comment collection
    nextId,         \* the next ObjectId the driver generates
    info,           \* the recipes of the bundled file info.json
    last,           \* the request served by the latest step, when that step was a
                    \* single-await handler: route, id, body, status, msg
    pc,             \* position of the multi-await request in flight, or "idle"
    req,            \* that request: route, headers, params, query, body
    res,            \* its response: status (0: none sent yet), msg
    ran,            \* how many times auth called next() for it
    user,           \* auth's local: outcome of User.findById
    comment,        \* attach-comment's local: _id of the new Comment
    fresh,          \* history: no recipe listed that _id when it was generated
    pending,        \* GET /recipes: lookups issued and not yet completed
    allergiesIds,   \* GET /recipes: the Set filled by the allergy lookups
    ingredientsIds, \* GET /recipes: the Set filled by the ingredient lookups
    filter,         \* GET /recipes: the filter handed to Recipe.find
    found,          \* GET /recipes: the array sent
    interfered      \* history: another request wrote the store while this one was in flight

store == <<recipes, ingredients, units, users, comments, nextId>>
locals == <<ran, user, comment, fresh, pending, allergiesIds, ingredientsIds, filter, found>>
vars == <<recipes, ingredients, units, users, comments, nextId, info, last, pc, req, res,
          ran, user, comment, fresh, pending, allergiesIds, ingredientsIds, filter, found,
          interfered>>

-----------------------------------------------------------------------------
(* Bounds *)

\* ObjectIds are 1..MaxId; no document is created once they are used up.
MaxId == 10
\* Most names in the allergies and ingredients facets of a GET /recipes together.
MaxLookups == 3

\* A path or header id that does not cast to an ObjectId (mongoose CastError).
BadId == 0

-----------------------------------------------------------------------------
(* Documents.  A document is a function from the field names that are set  *)
(* to their values; a field that is not set is not in its DOMAIN.          *)

RecipeFields == {"title", "vegan", "vegetarian", "ingredients", "comments"}
IngredientFields == {"name", "allergie"}
UnitFields == {"name"}
CommentFields == {"user", "content"}

Restrict(f, S) == [k \in (DOMAIN f) \cap S |-> f[k]]

Range(s) == {s[i] : i \in DOMAIN s}

\* new Recipe(doc): fields outside the schema are dropped (strict schema), the array
\* paths default to [].
NewRecipe(doc) ==
    LET d == Restrict(doc, RecipeFields)
    IN  [k \in (DOMAIN d) \cup {"ingredients", "comments"} |->
            IF k \in DOMAIN d THEN d[k]
            ELSE IF k = "ingredients" THEN {} ELSE <<>>]

Insert(coll, id, doc) == [k \in (DOMAIN coll) \cup {id} |-> IF k = id THEN doc ELSE coll[k]]

Remove(coll, id) == [k \in (DOMAIN coll) \ {id} |-> coll[k]]

\* Model.findById(id) and the findByIdAnd... calls: "error" when the id does not cast
\* or the store fails, else whether a document has that _id.
Lookup(coll, id, err) ==
    IF err \/ id = BadId THEN "error"
    ELSE IF id \in DOMAIN coll THEN "found" ELSE "missing"

\* What findByIdAndUpdate(id, body) does to a document: the keys of body that are
\* not update operators are wrapped in $set, so the keys in body are overwritten and
\* every other field of the document stays as it is.  Keys outside the schema are
\* dropped.
UpdateReplace(doc, body, fields) == Restrict(body, fields)

UpdateDoc(doc, body, fields) ==
    LET b == Restrict(body, fields)
    IN  [k \in (DOMAIN doc) \cup (DOMAIN b) |-> IF k \in DOMAIN b THEN b[k] ELSE doc[k]]

FindByIdAndUpdate(coll, id, body, fields) ==
    IF id \in DOMAIN coll
    THEN [coll EXCEPT ![id] = UpdateDoc(coll[id], body, fields)]
    ELSE coll

\* $addToSet: { comments: c }: append c unless the array holds it already.
AddToSetPush(list, c) == Append(list, c)

AddToSet(list, c) == IF c \in Range(list) THEN list ELSE Append(list, c)

-----------------------------------------------------------------------------
(* Requests served in one step *)

NoLast == [route |-> "", id |-> BadId, body |-> <<>>, status |-> 0, msg |-> ""]

NoReq == [route |-> ""]
NoRes == [status |-> 0, msg |-> ""]

\* A write by another request while a multi-await request is in flight.
Interfere == interfered' = (interfered \/ pc # "idle")

Served(route, id, body, status, msg) ==
    last' = [route |-> route, id |-> id, body |-> body, status |-> status, msg |-> msg]

\* The body of the delete handlers: try { await M.findByIdAndDelete(id);
\* send Success } catch { send Failed }.
DeleteOutcome(coll, id, err) ==
    IF Lookup(coll, id, err) = "error" THEN "Failed" ELSE "Success"

DeleteResult(coll, id, err) ==
    IF Lookup(coll, id, err) = "found" THEN Remove(coll, id) ELSE coll

DeleteRecipe(id, err) ==
    /\ recipes' = DeleteResult(recipes, id, err)
    /\ Served("DELETE /recipes/:id", id, <<>>, 200, DeleteOutcome(recipes, id, err))
    /\ Interfere
    /\ UNCHANGED <<ingredients, units, users, comments, nextId, info, pc, req, res, locals>>

DeleteIngredient(id, err) ==
    /\ ingredients' = DeleteResult(ingredients, id, err)
    /\ Served("DELETE /ingredients/:id", id, <<>>, 200, DeleteOutcome(ingredients, id, err))
    /\ Interfere
    /\ UNCHANGED <<recipes, units, users, comments, nextId, info, pc, req, res, locals>>

DeleteUnit(id, err) ==
    /\ units' = DeleteResult(units, id, err)
    /\ Served("DELETE /units/:id", id, <<>>, 200, DeleteOutcome(units, id, err))
    /\ Interfere
    /\ UNCHANGED <<recipes, ingredients, users, comments, nextId, info, pc, req, res, locals>>

DeleteUser(id, err) ==
    /\ users' = DeleteResult(users, id, err)
    /\ Served("DELETE /users/:id", id, <<>>, 200, DeleteOutcome(users, id, err))
    /\ Interfere
    /\ UNCHANGED <<recipes, ingredients, units, comments, nextId, info, pc, req, res, locals>>

\* DELETE /recipes/:id/comment/:commentId reads only params.id, the recipe id, and
\* hands it to Comment.findByIdAndDelete.
CommentDeleteKey(id, commentId) == id

DeleteComment(id, commentId, err) ==
    LET key == CommentDeleteKey(id, commentId)
    IN  /\ comments' = DeleteResult(comments, key, err)
        /\ Served("DELETE /recipes/:id/comment/:commentId", id,
                  [commentId |-> commentId], 200, DeleteOutcome(comments, key, err))
        /\ Interfere
        /\ UNCHANGED <<recipes, ingredients, units, users, nextId, info, pc, req, res, locals>>

\* The body of the put handlers: await M.findByIdAndUpdate(id, body, {new: true});
\* send the document (null when there is none).  Nothing catches an error.
PutOutcome(coll, id, err) ==
    CASE Lookup(coll, id, err) = "error" -> [status |-> 0, msg |-> "fault"]
      [] Lookup(coll, id, err) = "missing" -> [status |-> 200, msg |-> "null"]
      [] OTHER -> [status |-> 200, msg |-> "doc"]

PutResult(coll, id, body, fields, err) ==
    IF Lookup(coll, id, err) = "found" THEN FindByIdAndUpdate(coll, id, body, fields) ELSE coll

PutRecipe(id, body, err) ==
    /\ recipes' = PutResult(recipes, id, body, RecipeFields, err)
    /\ Served("PUT /recipes/:id", id, body,
              PutOutcome(recipes, id, err).status, PutOutcome(recipes, id, err).msg)
    /\ Interfere
    /\ UNCHANGED <<ingredients, units, users, comments, nextId, info, pc, req, res, locals>>

PutIngredient(id, body, err) ==
    /\ ingredients' = PutResult(ingredients, id, body, IngredientFields, err)
    /\ Served("PUT /ingredients/:id", id, body,
              PutOutcome(ingredients, id, err).status, PutOutcome(ingredients, id, err).msg)
    /\ Interfere
    /\ UNCHANGED <<recipes, units, users, comments, nextId, info, pc, req, res, locals>>

PutUnit(id, body, err) ==
    /\ units' = PutResult(units, id, body, UnitFields, err)
    /\ Served("PUT /units/:id", id, body,
              PutOutcome(units, id, err).status, PutOutcome(units, id, err).msg)
    /\ Interfere
    /\ UNCHANGED <<recipes, ingredients, users, comments, nextId, info, pc, req, res, locals>>

PutComment(id, body, err) ==
    /\ comments' = PutResult(comments, id, body, CommentFields, err)
    /\ Served("PUT /comments/:id", id, body,
              PutOutcome(comments, id, err).status, PutOutcome(comments, id, err).msg)
    /\ Interfere
    /\ UNCHANGED <<recipes, ingredients, units, users, nextId, info, pc, req, res, locals>>

\* PUT /users/:id passes the undeclared name body to findByIdAndUpdate: a
\* ReferenceError before the store is reached.
PutUser(id, body) ==
    /\ Served("PUT /users/:id", id, body, 0, "fault")
    /\ UNCHANGED <<store, info, pc, req, res, locals, interfered>>

\* POST /ingredients: new Ingredient({name, allergie}), save, send.
PostIngredient(body, err) ==
    /\ nextId <= MaxId
    /\ IF err
       THEN /\ Served("POST /ingredients", BadId, body, 0, "fault")
            /\ UNCHANGED <<ingredients, nextId, interfered>>
       ELSE /\ ingredients' = Insert(ingredients, nextId, Restrict(body, IngredientFields))
            /\ nextId' = nextId + 1
            /\ Served("POST /ingredients", nextId, body, 200, "doc")
            /\ Interfere
    /\ UNCHANGED <<recipes, units, users, comments, info, pc, req, res, locals>>

-----------------------------------------------------------------------------
(* Requests that await the store more than once *)

FaultPcs == {"faultSave", "faultAttach", "faultRespond", "faultUpload", "faultCreate",
             "faultLookup", "faultFind", "faultSeed"}

\* No multi-await request is in flight: the next one may arrive.
Halted == pc = "idle"

Fault == [status |-> 0, msg |-> "fault"]

Referenced(c) == \E r \in DOMAIN recipes : c \in Range(recipes[r].comments)

\* The handler has answered, or its promise was rejected: its request, response and
\* locals are gone.
Return ==
    /\ pc \in {"done"} \cup FaultPcs
    /\ pc' = "idle"
    /\ req' = NoReq
    /\ res' = NoRes
    /\ ran' = 0
    /\ user' = "none"
    /\ comment' = BadId
    /\ fresh' = TRUE
    /\ pending' = {}
    /\ allergiesIds' = <<>>
    /\ ingredientsIds' = <<>>
    /\ filter' = <<>>
    /\ found' = <<>>
    /\ interfered' = FALSE
    /\ last' = NoLast
    /\ UNCHANGED <<store, info>>

\* auth calls next() when User.findById resolved to a document; a missing user and
\* a rejected lookup both answer 403.
AuthProceedsOnError(lookup) == lookup \in {"found", "error"}

AuthProceeds(lookup) == lookup = "found"

AfterAuth(route) == IF route = "POST /recipes" THEN "upload" ELSE "save"

\* A request to a route behind auth arrives; auth runs up to its await.
Auth(route, headers, params, body, file) ==
    /\ Halted
    /\ req' = [route |-> route, headers |-> headers, params |-> params, body |-> body,
               file |-> file]
    /\ IF "id" \notin DOMAIN headers
       THEN /\ res' = [status |-> 403, msg |-> ""]
            /\ pc' = "done"
       ELSE /\ res' = NoRes
            /\ pc' = "auth"
    /\ ran' = 0
    /\ user' = "none"
    /\ comment' = BadId
    /\ fresh' = TRUE
    /\ interfered' = FALSE
    /\ last' = NoLast
    /\ UNCHANGED <<store, info, pending, allergiesIds, ingredientsIds, filter, found>>

\* User.findById(id) settles.
AuthLookup(err) ==
    /\ pc = "auth"
    /\ user' = Lookup(users, req.headers.id, err)
    /\ IF AuthProceeds(user')
       THEN /\ ran' = ran + 1
            /\ pc' = AfterAuth(req.route)
            /\ res' = res
       ELSE /\ ran' = ran
            /\ pc' = "done"
            /\ res' = [status |-> 403, msg |-> ""]
    /\ last' = NoLast
    /\ UNCHANGED <<store, info, req, comment, fresh, pending, allergiesIds, ingredientsIds,
                   filter, found, interfered>>

\* POST /recipes/:id/comment: new Comment({user, content}); await comment.save().
\* The save is rejected when the store fails or body.user does not cast.
CommentSave(err) ==
    /\ pc = "save"
    /\ nextId <= MaxId
    /\ nextId' = nextId + 1
    /\ IF err \/ ("user" \in DOMAIN req.body /\ req.body.user = BadId)
       THEN /\ pc' = "faultSave"
            /\ res' = Fault
            /\ UNCHANGED <<comments, comment, fresh>>
       ELSE /\ comments' = Insert(comments, nextId, Restrict(req.body, CommentFields))
            /\ comment' = nextId
            /\ fresh' = ~Referenced(nextId)
            /\ pc' = "attach"
            /\ res' = res
    /\ last' = NoLast
    /\ UNCHANGED <<recipes, ingredients, units, users, info, req, ran, user, pending,
                   allergiesIds, ingredientsIds, filter, found, interfered>>

\* Recipe.findByIdAndUpdate(id, {$addToSet: {comments: comment._id}}) settles; when
\* it resolves to null, recipe.save() throws.
AttachOutcomeNullOk(lookup) == IF lookup = "error" THEN "faultAttach" ELSE "respond"

AttachOutcome(lookup) == IF lookup = "found" THEN "respond" ELSE "faultAttach"

CommentAttach(err) ==
    LET id == req.params.id
        lookup == Lookup(recipes, id, err)
    IN  /\ pc = "attach"
        /\ pc' = AttachOutcome(lookup)
        /\ recipes' = IF lookup = "found"
                      THEN [recipes EXCEPT ![id].comments = AddToSet(@, comment)]
                      ELSE recipes
        /\ res' = IF pc' \in FaultPcs THEN Fault ELSE res
        /\ last' = NoLast
        /\ UNCHANGED <<ingredients, units, users, comments, nextId, info, req, locals,
                       interfered>>

\* await recipe.save(); res.send(await comment.populate("user")).
CommentRespond(err) ==
    /\ pc = "respond"
    /\ IF err
       THEN pc' = "faultRespond" /\ res' = Fault
       ELSE pc' = "done" /\ res' = [status |-> 200, msg |-> "doc"]
    /\ last' = NoLast
    /\ UNCHANGED <<store, info, req, locals, interfered>>

\* POST /recipes after auth: multer's fileFilter turns away a file that is not
\* .png or .jpg (express answers the error); else the handler runs up to its await:
\* JSON.parse of the ingredientsQuantities field and req.file.filename both throw
\* when the field or the file is missing.
Upload ==
    /\ pc = "upload"
    /\ IF req.file = "txt"
       THEN pc' = "done" /\ res' = [status |-> 500, msg |-> "Please upload a Image"]
       ELSE IF req.file = "none" \/ "ingredientsQuantities" \notin DOMAIN req.body
            THEN pc' = "faultUpload" /\ res' = Fault
            ELSE pc' = "create" /\ res' = res
    /\ last' = NoLast
    /\ UNCHANGED <<store, info, req, locals, interfered>>

\* The document POST /recipes builds: the scalar fields sent, ingredients collected
\* from the quantity entries, comments as sent.
PostedRecipe(body) ==
    NewRecipe([k \in ((DOMAIN body) \cap {"title", "vegan", "vegetarian", "comments"})
                        \cup {"ingredients"} |->
                 IF k = "ingredients"
                 THEN {body.ingredientsQuantities[i].Ingredient :
                            i \in DOMAIN body.ingredientsQuantities}
                 ELSE body[k]])

\* await recipe.save(); res.send(recipe).
PostRecipeSave(err) ==
    /\ pc = "create"
    /\ nextId <= MaxId
    /\ nextId' = nextId + 1
    /\ IF err
       THEN pc' = "faultCreate" /\ res' = Fault /\ recipes' = recipes
       ELSE /\ recipes' = Insert(recipes, nextId, PostedRecipe(req.body))
            /\ pc' = "done"
            /\ res' = [status |-> 200, msg |-> "doc"]
    /\ last' = NoLast
    /\ UNCHANGED <<ingredients, units, users, comments, info, req, locals, interfered>>

-----------------------------------------------------------------------------
(* GET /recipes *)

\* if (facet): the facet is sent (the values the model sends are non-empty strings).
Given(query, k) == k \in DOMAIN query

\* Ingredient.find({allergie}) and Ingredient.find({name}): the _ids of the
\* ingredients whose field equals the name.
FindIngredients(field, name) ==
    {i \in DOMAIN ingredients : field \in DOMAIN ingredients[i] /\ ingredients[i][field] = name}

\* The documents a find resolves to, in _id order.
RECURSIVE Ascending(_)
Ascending(ids) ==
    IF ids = {} THEN <<>>
    ELSE LET m == CHOOSE x \in ids : \A y \in ids : x <= y
         IN  <<m>> \o Ascending(ids \ {m})

\* found.forEach((ingr) => set.add(ingr._id)): every _id is a new ObjectId object,
\* so the Set appends each one, also an id it already holds from another lookup.
AddAllReplace(set, ids) == Ascending(ids)

AddAll(set, ids) == set \o Ascending(ids)

\* The lookups allergies.split(",").map(...) and ingredients.split(",").map(...)
\* issue: one per position of each list.
Lookups(query) ==
    (IF Given(query, "allergies")
     THEN {<<"allergie", k>> : k \in DOMAIN query.allergies} ELSE {})
    \cup
    (IF Given(query, "ingredients")
     THEN {<<"name", k>> : k \in DOMAIN query.ingredients} ELSE {})

\* The request arrives and the handler runs up to await Promise.all(...).
Search(query) ==
    /\ Halted
    /\ req' = [route |-> "GET /recipes", query |-> query]
    /\ res' = NoRes
    /\ pc' = "lookups"
    /\ pending' = Lookups(query)
    /\ allergiesIds' = <<>>
    /\ ingredientsIds' = <<>>
    /\ filter' = <<>>
    /\ found' = <<>>
    /\ interfered' = FALSE
    /\ last' = NoLast
    /\ UNCHANGED <<store, info, ran, user, comment, fresh>>

\* One lookup resolves and its callback adds what it found.
LookupDone(task) ==
    /\ pc = "lookups"
    /\ task \in pending
    /\ pending' = pending \ {task}
    /\ IF task[1] = "allergie"
       THEN /\ allergiesIds' =
                    AddAll(allergiesIds, FindIngredients("allergie", req.query.allergies[task[2]]))
            /\ UNCHANGED ingredientsIds
       ELSE /\ ingredientsIds' =
                    AddAll(ingredientsIds, FindIngredients("name", req.query.ingredients[task[2]]))
            /\ UNCHANGED allergiesIds
    /\ last' = NoLast
    /\ UNCHANGED <<store, info, pc, req, res, ran, user, comment, fresh, filter, found,
                   interfered>>

\* One lookup is rejected: Promise.all rejects and the handler rethrows.  What the
\* lookups still running add to the Sets is read by nobody.
LookupFail(task) ==
    /\ pc = "lookups"
    /\ task \in pending
    /\ pending' = {}
    /\ allergiesIds' = <<>>
    /\ ingredientsIds' = <<>>
    /\ pc' = "faultLookup"
    /\ res' = Fault
    /\ last' = NoLast
    /\ UNCHANGED <<store, info, req, ran, user, comment, fresh, filter, found, interfered>>

\* Promise.all resolves once every lookup has.
AllSettled(tasks, left) == left = {}

\* if (vegetarian) filter.vegetarian = true; if (vegan) filter.vegan = true.
FlagFilterEquality(query) ==
    [k \in {f \in {"vegan", "vegetarian"} : Given(query, f)} |-> query[k] = "true"]

FlagFilter(query) ==
    [k \in {f \in {"vegan", "vegetarian"} : Given(query, f)} |-> TRUE]

\* The filter: ingredients {$nin: Array.from(allergiesIds), and $in:
\* Array.from(ingredientsIds) when that is not empty}, and the flags.
BuildFilter(query, nin, in) ==
    LET flags == FlagFilter(query)
        keys == {"$nin"} \cup (IF Len(in) # 0 THEN {"$in"} ELSE {}) \cup DOMAIN flags
    IN  [k \in keys |-> CASE k = "$nin" -> nin
                          [] k = "$in" -> in
                          [] OTHER -> flags[k]]

\* The handler resumes after Promise.all, builds the filter and issues Recipe.find.
Join ==
    /\ pc = "lookups"
    /\ AllSettled(Lookups(req.query), pending)
    /\ filter' = BuildFilter(req.query, allergiesIds, ingredientsIds)
    /\ pc' = "find"
    /\ last' = NoLast
    /\ UNCHANGED <<store, info, req, res, ran, user, comment, fresh, pending, allergiesIds,
                   ingredientsIds, found, interfered>>

\* Whether a recipe matches the filter (MongoDB on an array field: $nin holds when
\* no element is listed, $in when some element is).
IngredientsMatchNoNin(doc, f) ==
    "$in" \in DOMAIN f => doc.ingredients \cap Range(f["$in"]) # {}

IngredientsMatch(doc, f) ==
    /\ doc.ingredients \cap Range(f["$nin"]) = {}
    /\ "$in" \in DOMAIN f => doc.ingredients \cap Range(f["$in"]) # {}

Matches(doc, f) ==
    /\ IngredientsMatch(doc, f)
    /\ \A k \in (DOMAIN f) \cap {"vegan", "vegetarian"} : k \in DOMAIN doc /\ doc[k] = f[k]

LowerChar(c) ==
    CASE c = "A" -> "a"
      [] c = "B" -> "b"
      [] c = "C" -> "c"
      [] OTHER -> c

ToLowerCase(s) == [i \in DOMAIN s |-> LowerChar(s[i])]

Includes(s, t) == \E k \in 0..(Len(s) - Len(t)) : SubSeq(s, k + 1, k + Len(t)) = t

\* .populate("ingredients"): the references that resolve.
Populated(doc) == doc.ingredients \cap DOMAIN ingredients

\* The arrays shuffleArray can leave: every order of the recipes kept.
Shuffles(ids) ==
    {p \in [1..Cardinality(ids) -> ids] : \A i, j \in DOMAIN p : p[i] = p[j] => i = j}

\* Recipe.find settles; the term filter, the shuffle and the response.  Reading
\* title.toLowerCase() of a recipe without a title throws.
FindDone(err) ==
    LET matched == {r \in DOMAIN recipes : Matches(recipes[r], filter)}
        term == Given(req.query, "term")
        kept == IF term
                THEN {r \in matched : Includes(ToLowerCase(recipes[r].title),
                                               ToLowerCase(req.query.term))}
                ELSE matched
    IN  /\ pc = "find"
        /\ IF err \/ (term /\ \E r \in matched : "title" \notin DOMAIN recipes[r])
           THEN /\ pc' = "faultFind"
                /\ res' = Fault
                /\ found' = found
           ELSE /\ pc' = "done"
                /\ res' = [status |-> 200, msg |-> "array"]
                /\ \E p \in Shuffles(kept) :
                        found' = [i \in DOMAIN p |->
                                    [id |-> p[i], ingredients |-> Populated(recipes[p[i]])]]
        /\ last' = NoLast
        /\ UNCHANGED <<store, info, req, ran, user, comment, fresh, pending, allergiesIds,
                       ingredientsIds, filter, interfered>>

-----------------------------------------------------------------------------
(* GET /initRecipes *)

\* Recipe.deleteMany(): no recipe is left.
DeleteManyNone(coll) == coll

DeleteMany(coll) == <<>>

\* json.recipes.map((recipe) => ({...recipe, id: null, ingredients: recipe.ingredients})).
MappedRecipe(recipe) ==
    [k \in (DOMAIN recipe) \cup {"id"} |-> IF k = "id" THEN "null" ELSE recipe[k]]

\* Recipe.insertMany(docs): one document per entry, in order, each under a fresh id.
RECURSIVE InsertMany(_, _, _)
InsertMany(coll, docs, id) ==
    IF docs = <<>> THEN coll
    ELSE InsertMany(Insert(coll, id, NewRecipe(Head(docs))), Tail(docs), id + 1)

\* The request arrives and initRecipes runs up to the end of await Recipe.deleteMany().
InitRecipesDelete(err) ==
    /\ Halted
    /\ req' = [route |-> "GET /initRecipes"]
    /\ interfered' = FALSE
    /\ IF err
       THEN pc' = "faultSeed" /\ res' = Fault /\ recipes' = recipes
       ELSE pc' = "insertMany" /\ res' = NoRes /\ recipes' = DeleteMany(recipes)
    /\ last' = NoLast
    /\ UNCHANGED <<ingredients, units, users, comments, nextId, info, locals>>

\* readFile, JSON.parse, the map, await Recipe.insertMany(mappedRecipes) and
\* res.send("DONE!"); the read or the insert may be rejected.
InitRecipesInsert(err) ==
    /\ pc = "insertMany"
    /\ nextId + Len(info) - 1 <= MaxId
    /\ IF err
       THEN pc' = "faultSeed" /\ res' = Fault /\ UNCHANGED <<recipes, nextId>>
       ELSE /\ recipes' = InsertMany(recipes, [i \in DOMAIN info |-> MappedRecipe(info[i])], nextId)
            /\ nextId' = nextId + Len(info)
            /\ pc' = "done"
            /\ res' = [status |-> 200, msg |-> "DONE!"]
    /\ last' = NoLast
    /\ UNCHANGED <<ingredients, units, users, comments, info, req, locals, interfered>>

-----------------------------------------------------------------------------
(* Initial states and inputs *)

T1 == <<"A", "b">>
T2 == <<"c">>

InitRequest ==
    /\ last = NoLast
    /\ pc = "idle"
    /\ req = NoReq
    /\ res = NoRes
    /\ ran = 0
    /\ user = "none"
    /\ comment = BadId
    /\ fresh = TRUE
    /\ pending = {}
    /\ allergiesIds = <<>>
    /\ ingredientsIds = <<>>
    /\ filter = <<>>
    /\ found = <<>>
    /\ interfered = FALSE

\* Ids a client sends to a route of a collection: the id of a stored document, a
\* well-formed id no document has, and a string that is no ObjectId.
IdsFor(coll) == DOMAIN coll \cup {nextId, BadId}

CrudRecipes ==
    { NewRecipe([title |-> T1, vegan |-> TRUE, ingredients |-> {3}, comments |-> <<7>>]),
      NewRecipe([title |-> T1]) }

CrudRecipeBodies == { [title |-> T2], [vegan |-> FALSE], [rating |-> 5] }

CrudIngredientBodies == { [name |-> "n2"] }
CrudUnitBodies == { [name |-> "u2"], [symbol |-> "s"] }
CrudCommentBodies == { [content |-> "y"] }
CrudUserBodies == { [favoriteId |-> 1] }

InitCrud ==
    /\ recipes \in {(1 :> r) : r \in CrudRecipes}
    /\ ingredients = (3 :> [name |-> "n1", allergie |-> "g1"])
    /\ units = (5 :> [name |-> "u1"])
    /\ users = (6 :> [email |-> "e1", password |-> "p1"])
    /\ comments = (7 :> [user |-> 6, content |-> "x"])
    /\ nextId = 8
    /\ info = <<>>
    /\ InitRequest

NextCrud ==
    \/ \E id \in IdsFor(recipes), err \in BOOLEAN : DeleteRecipe(id, err)
    \/ \E id \in IdsFor(ingredients), err \in BOOLEAN : DeleteIngredient(id, err)
    \/ \E id \in IdsFor(units), err \in BOOLEAN : DeleteUnit(id, err)
    \/ \E id \in IdsFor(users), err \in BOOLEAN : DeleteUser(id, err)
    \/ \E id \in IdsFor(recipes) \cup DOMAIN comments, cid \in IdsFor(comments), err \in BOOLEAN :
            DeleteComment(id, cid, err)
    \/ \E id \in IdsFor(recipes), b \in CrudRecipeBodies, err \in BOOLEAN : PutRecipe(id, b, err)
    \/ \E id \in IdsFor(ingredients), b \in CrudIngredientBodies, err \in BOOLEAN :
            PutIngredient(id, b, err)
    \/ \E id \in IdsFor(units), b \in CrudUnitBodies, err \in BOOLEAN : PutUnit(id, b, err)
    \/ \E id \in IdsFor(comments), b \in CrudCommentBodies, err \in BOOLEAN : PutComment(id, b, err)
    \/ \E id \in IdsFor(users), b \in CrudUserBodies : PutUser(id, b)

SpecCrud == InitCrud /\ [][NextCrud]_vars

-----------------------------------------------------------------------------
(* Update *)

PutRoutes == {"PUT /recipes/:id", "PUT /ingredients/:id", "PUT /units/:id", "PUT /comments/:id"}

CollOf(route, r, i, u, c) ==
    CASE route = "PUT /recipes/:id" -> r
      [] route = "PUT /ingredients/:id" -> i
      [] route = "PUT /units/:id" -> u
      [] OTHER -> c

FieldsOf(route) ==
    CASE route = "PUT /recipes/:id" -> RecipeFields
      [] route = "PUT /ingredients/:id" -> IngredientFields
      [] route = "PUT /units/:id" -> UnitFields
      [] OTHER -> CommentFields

-----------------------------------------------------------------------------
(* Delete *)

DeleteRoutes ==
    {"DELETE /recipes/:id", "DELETE /ingredients/:id", "DELETE /units/:id", "DELETE /users/:id"}

DeleteColl(route, r, i, u, us) ==
    CASE route = "DELETE /recipes/:id" -> r
      [] route = "DELETE /ingredients/:id" -> i
      [] route = "DELETE /units/:id" -> u
      [] OTHER -> us

\* C3 as claimed: a delete of a recipe, ingredient, unit or user whose id matches no
\* stored record answers {msg: "Failed"} and leaves the store unchanged.
C3_DeleteMissingFails ==
    [][(/\ last'.route \in DeleteRoutes
        /\ last'.id \notin DOMAIN DeleteColl(last'.route, recipes, ingredients, units, users))
       => (last'.msg = "Failed" /\ UNCHANGED store)]_vars

\* C8 as claimed: a successful DELETE /recipes/:id/comment/:commentId with the id of
\* a stored comment removes that comment, leaves every other comment as it was and
\* does not touch the recipes.
C8_DeletesByCommentId ==
    [][(/\ last'.route = "DELETE /recipes/:id/comment/:commentId"
        /\ last'.msg = "Success"
        /\ last'.body.commentId \in DOMAIN comments)
       => (comments' = Remove(comments, last'.body.commentId) /\ recipes' = recipes)]_vars

-----------------------------------------------------------------------------
(* The routes behind auth *)

NoHeaders == [host |-> "h"]

HeaderInputs == {NoHeaders} \cup {[host |-> "h", id |-> h] : h \in IdsFor(users)}

CommentBodies == { [user |-> 6, content |-> "x"], [user |-> BadId, content |-> "x"] }

RecipePostBodies ==
    { [title |-> T1, ingredientsQuantities |-> <<[Ingredient |-> 3, Quantity |-> 1, Unit |-> 5]>>],
      [title |-> T1] }

\* Comment lists a client sends in PUT /recipes/:id: ObjectIds of its choosing, the
\* next one the driver will generate among them.
CommentListBodies == { [comments |-> <<nextId, 7>>], [comments |-> <<7, 7>>] }

InitComment ==
    /\ recipes = (1 :> NewRecipe([title |-> T1]))
    /\ ingredients = (3 :> [name |-> "n1", allergie |-> "g1"])
    /\ units = (5 :> [name |-> "u1"])
    /\ users = (6 :> [email |-> "e1", password |-> "p1"])
    /\ comments = <<>>
    /\ nextId = 8
    /\ info = <<>>
    /\ InitRequest

NextAuth ==
    \/ \E h \in HeaderInputs, id \in IdsFor(recipes), b \in CommentBodies :
            Auth("POST /recipes/:id/comment", h, [id |-> id], b, "none")
    \/ \E h \in HeaderInputs, b \in RecipePostBodies, f \in {"none", "png", "txt"} :
            Auth("POST /recipes", h, <<>>, b, f)
    \/ \E err \in BOOLEAN : AuthLookup(err)
    \/ \E err \in BOOLEAN : CommentSave(err)
    \/ \E err \in BOOLEAN : CommentAttach(err)
    \/ \E err \in BOOLEAN : CommentRespond(err)
    \/ Upload
    \/ \E err \in BOOLEAN : PostRecipeSave(err)
    \/ Return
    \/ \E id \in DOMAIN users : DeleteUser(id, FALSE)

SpecAuth == InitComment /\ [][NextAuth]_vars

NextComment ==
    \/ \E h \in HeaderInputs, id \in IdsFor(recipes), b \in CommentBodies :
            Auth("POST /recipes/:id/comment", h, [id |-> id], b, "none")
    \/ \E err \in BOOLEAN : AuthLookup(err)
    \/ \E err \in BOOLEAN : CommentSave(err)
    \/ \E err \in BOOLEAN : CommentAttach(err)
    \/ \E err \in BOOLEAN : CommentRespond(err)
    \/ Return
    \/ \E id \in DOMAIN recipes, b \in CommentListBodies : PutRecipe(id, b, FALSE)
    \/ \E id \in DOMAIN recipes : DeleteRecipe(id, FALSE)

SpecComment == InitComment /\ [][NextComment]_vars

AuthRoutes == {"POST /recipes", "POST /recipes/:id/comment"}

\* C4: behind auth, a request without an id header, or whose id finds no User or
\* makes the lookup fail, is answered 403 without next() being called, and no step
\* of it up to that answer changes the store; a request whose id finds a User has
\* next() called exactly once and is never answered 403.
C4_AuthGate ==
    /\ [](req.route \in AuthRoutes =>
            /\ ran <= 1
            /\ (pc # "auth" /\ ("id" \notin DOMAIN req.headers \/ user \in {"missing", "error"})
                    => (res.status = 403 /\ ran = 0 /\ pc = "done"))
            /\ (res.status = 403 => ran = 0)
            /\ (user = "found" => (ran = 1 /\ res.status # 403))
            /\ (pc \in {"save", "attach", "respond", "upload", "create"} => user = "found"))
    /\ [][(last' = NoLast /\ req'.route \in AuthRoutes /\ (pc' = "auth" \/ res'.status = 403))
            => UNCHANGED store]_vars

\* A request denied because its id matched no User, and one denied because the
\* lookup failed on the id of a stored User.
C4_Witness ==
    /\ req.route = "POST /recipes/:id/comment"
    /\ res.status = 403
    /\ user = "error"
    /\ req.headers.id \in DOMAIN users
    /\ ran = 0

NoDup(list) == \A i, j \in DOMAIN list : list[i] = list[j] => i = j

\* C5: the step that attaches the new comment's id to the recipe leaves the id in
\* the list exactly as often as before when the list held it already, appends it
\* once otherwise, and so keeps a list without duplicates free of duplicates.
C5_AddIfAbsent ==
    [][(pc = "attach" /\ pc' = "respond")
       => LET old == recipes[req.params.id].comments
              new == recipes'[req.params.id].comments
          IN  /\ comment \in Range(new)
              /\ (comment \in Range(old) => new = old)
              /\ (comment \notin Range(old) => new = Append(old, comment))
              /\ (NoDup(old) => NoDup(new))]_vars

\* After an attach nobody interfered with, the list holds the new comment's id, and
\* not as its last entry: the id was in the list before and was not appended again.
C5_Witness ==
    /\ pc = "respond"
    /\ ~interfered
    /\ LET list == recipes[req.params.id].comments
       IN  /\ NoDup(list)
           /\ comment \in Range(list)
           /\ list[Len(list)] # comment

\* C9: the comment is stored by the step before the recipe is updated; when the
\* update is rejected or finds no recipe, the request ends in a fault with no
\* response, that step changes no recipe and no comment, and while nobody else has
\* written, the new comment is stored and (its id being one no recipe listed
\* beforehand) referenced by no recipe.
C9_NotAtomic ==
    /\ [](pc = "faultAttach" =>
            /\ res.status = 0
            /\ (~interfered => comment \in DOMAIN comments)
            /\ (~interfered /\ fresh => ~Referenced(comment)))
    /\ [][(pc = "save" /\ pc' = "attach")
            => (comment' \in DOMAIN comments' /\ comment' \notin DOMAIN comments
                /\ recipes' = recipes)]_vars
    /\ [][(pc = "attach" /\ pc' # "attach" /\ last' = NoLast
              /\ Lookup(recipes, req.params.id, FALSE) # "found")
            => (pc' = "faultAttach" /\ recipes' = recipes /\ comments' = comments)]_vars
    /\ [][(pc = "attach" /\ pc' = "faultAttach")
            => (recipes' = recipes /\ comments' = comments /\ res'.status = 0)]_vars

\* The attach faulted on a recipe id that matches no recipe, and the new comment is
\* stored with no recipe referring to it.
C9_Witness ==
    /\ pc = "faultAttach"
    /\ req.params.id \notin DOMAIN recipes
    /\ req.params.id # BadId
    /\ comment \in DOMAIN comments
    /\ ~Referenced(comment)
    /\ recipes # <<>>

-----------------------------------------------------------------------------
(* Search *)

AllergyNames == {"g1", "g2"}
IngredientNames == {"n1", "n2"}

NameLists(names) == UNION {[1..n -> names] : n \in 1..MaxLookups}

\* An optional facet: no value, or one of the values.
Optional(values) == {{}} \cup {{v} : v \in values}

Query(a, i, v, g, t) ==
    LET opts == [allergies |-> a, ingredients |-> i, vegan |-> v, vegetarian |-> g, term |-> t]
    IN  [k \in {x \in DOMAIN opts : opts[x] # {}} |-> CHOOSE val \in opts[k] : TRUE]

Queries ==
    { q \in { Query(a, i, v, g, t) :
                a \in Optional(NameLists(AllergyNames)),
                i \in Optional(NameLists(IngredientNames)),
                v \in Optional({"true", "false"}),
                g \in Optional({"true", "false"}),
                t \in Optional({<<"a", "B">>}) } :
        Cardinality(Lookups(q)) <= MaxLookups }

InitSearch ==
    /\ ingredients = (1 :> [name |-> "n1", allergie |-> "g1"])
                  @@ (2 :> [name |-> "n2", allergie |-> "g2"])
                  @@ (3 :> [name |-> "n1"])
    /\ recipes = (4 :> NewRecipe([title |-> T1, vegan |-> TRUE, vegetarian |-> TRUE,
                                  ingredients |-> {1, 3}]))
              @@ (5 :> NewRecipe([title |-> T2, vegan |-> FALSE, vegetarian |-> TRUE,
                                  ingredients |-> {2}]))
              @@ (6 :> NewRecipe([vegetarian |-> FALSE, ingredients |-> {3}]))
    /\ units = <<>>
    /\ users = <<>>
    /\ comments = <<>>
    /\ nextId = 7
    /\ info = <<>>
    /\ InitRequest

\* The ingredients that DELETE /ingredients/:id requests remove while searches run:
\* one tagged and named, one only named.
DeletedMeanwhile == {2, 3}

NextSearch ==
    \/ Halted /\ \E q \in Queries : Search(q)
    \/ \E task \in pending : LookupDone(task)
    \/ \E task \in pending : LookupFail(task)
    \/ Join
    \/ \E err \in BOOLEAN : FindDone(err)
    \/ Return
    \/ \E id \in (DOMAIN ingredients) \cap DeletedMeanwhile : DeleteIngredient(id, FALSE)

SpecSearch == InitSearch /\ [][NextSearch]_vars

\* The ingredients tagged with one of the allergy names sent, and those that have
\* one of the ingredient names sent.
AllergenIds(q) ==
    IF "allergies" \in DOMAIN q
    THEN {i \in DOMAIN ingredients :
            /\ "allergie" \in DOMAIN ingredients[i]
            /\ \E k \in DOMAIN q.allergies : ingredients[i].allergie = q.allergies[k]}
    ELSE {}

NamedIds(q) ==
    IF "ingredients" \in DOMAIN q
    THEN {i \in DOMAIN ingredients :
            /\ "name" \in DOMAIN ingredients[i]
            /\ \E k \in DOMAIN q.ingredients : ingredients[i].name = q.ingredients[k]}
    ELSE {}

Returned == {found[k].id : k \in DOMAIN found}

\* A recipe's references avoid every allergen ingredient and, when some ingredient
\* has a name sent, include one of those.
MeetsIngredients(doc, q) ==
    /\ doc.ingredients \cap AllergenIds(q) = {}
    /\ NamedIds(q) # {} => doc.ingredients \cap NamedIds(q) # {}

\* A flag that is sent asks for recipes whose field is true.
MeetsFlag(doc, q, f) == f \in DOMAIN q => (f \in DOMAIN doc /\ doc[f] = TRUE)

MeetsTerm(doc, q) ==
    "term" \in DOMAIN q =>
        /\ "title" \in DOMAIN doc
        /\ Includes(ToLowerCase(doc.title), ToLowerCase(q.term))

Answered == req.route = "GET /recipes" /\ pc = "done"

\* C1: when GET /recipes answers and the store did not change meanwhile, every
\* recipe returned refers to no ingredient tagged with an allergy name sent and,
\* when some stored ingredient has an ingredient name sent, to at least one such
\* ingredient; and every stored recipe that meets both conditions and the other
\* facets sent (a flag sent: the field is true; a term sent: the title contains it,
\* ignoring case) is returned.
C1_SearchFacets ==
    (Answered /\ ~interfered) =>
        /\ \A r \in Returned : r \in DOMAIN recipes /\ MeetsIngredients(recipes[r], req.query)
        /\ \A r \in DOMAIN recipes :
                (/\ MeetsIngredients(recipes[r], req.query)
                 /\ MeetsFlag(recipes[r], req.query, "vegan")
                 /\ MeetsFlag(recipes[r], req.query, "vegetarian")
                 /\ MeetsTerm(recipes[r], req.query))
                => r \in Returned

\* A search with both facets that returned recipes and left out one that has a
\* wanted ingredient and an allergen ingredient.
C1_Witness ==
    /\ Answered
    /\ ~interfered
    /\ AllergenIds(req.query) # {}
    /\ NamedIds(req.query) # {}
    /\ Returned # {}
    /\ \E r \in DOMAIN recipes \ Returned :
            /\ recipes[r].ingredients \cap NamedIds(req.query) # {}
            /\ recipes[r].ingredients \cap AllergenIds(req.query) # {}

\* C7 as claimed: every recipe returned has its vegan field equal to the value of
\* the vegan flag sent (true or false), and likewise for vegetarian.
C7_FlagEquality ==
    Answered =>
        \A f \in {"vegan", "vegetarian"} \cap DOMAIN req.query :
            \A r \in Returned : f \in DOMAIN recipes[r] /\ recipes[r][f] = (req.query[f] = "true")

\* C7 amended: a flag that is sent, whatever its value, restricts the result to the
\* recipes whose field is true; a flag that is not sent does not restrict it: a
\* recipe that meets every other facet is returned whatever its field holds.
C7_FlagRequiresTrue ==
    Answered =>
        \A f \in {"vegan", "vegetarian"} :
            IF f \in DOMAIN req.query
            THEN \A r \in Returned : f \in DOMAIN recipes[r] /\ recipes[r][f] = TRUE
            ELSE ~interfered =>
                    \A r \in DOMAIN recipes :
                        (/\ MeetsIngredients(recipes[r], req.query)
                         /\ \A g \in {"vegan", "vegetarian"} \ {f} :
                                MeetsFlag(recipes[r], req.query, g)
                         /\ MeetsTerm(recipes[r], req.query))
                        => r \in Returned

\* vegan=false was sent and the recipes returned are the vegan ones, while a recipe
\* whose vegan field is false, and one without the field, were left out.
C7_Witness ==
    /\ Answered
    /\ DOMAIN req.query = {"vegan"}
    /\ req.query.vegan = "false"
    /\ Returned # {}
    /\ \A r \in Returned : recipes[r].vegan = TRUE
    /\ \E r \in DOMAIN recipes \ Returned : "vegan" \in DOMAIN recipes[r] /\ recipes[r].vegan = FALSE
    /\ \E r \in DOMAIN recipes \ Returned : "vegan" \notin DOMAIN recipes[r]

\* C10: the handler goes on to the recipe query only when no lookup is pending, and
\* then, if the store did not change meanwhile, the ids in $nin are those of the
\* ingredients tagged with any allergy name sent and the ids in $in those of the
\* ingredients with any ingredient name sent ($in is left out when there are none),
\* in whatever order the lookups completed.
C10_LookupsJoined ==
    /\ [][(pc = "lookups" /\ pc' = "find") => pending = {}]_vars
    /\ [](req.route = "GET /recipes" /\ pc = "find" => pending = {})
    /\ []((req.route = "GET /recipes" /\ pc = "find" /\ ~interfered) =>
            /\ Range(filter["$nin"]) = AllergenIds(req.query)
            /\ IF NamedIds(req.query) = {}
               THEN "$in" \notin DOMAIN filter
               ELSE Range(filter["$in"]) = NamedIds(req.query))

\* Two allergy lookups and an ingredient lookup were joined, the second allergy
\* lookup having completed before the first.
C10_Witness ==
    /\ req.route = "GET /recipes"
    /\ pc = "find"
    /\ ~interfered
    /\ "allergies" \in DOMAIN req.query
    /\ req.query.allergies = <<"g1", "g2">>
    /\ filter["$nin"] = <<2, 1>>
    /\ "$in" \in DOMAIN filter

-----------------------------------------------------------------------------
(* GET /initRecipes *)

SeedSamples ==
    { [id |-> 1, title |-> T1, ingredients |-> {2}],
      [id |-> 2, title |-> T2, vegan |-> TRUE] }

Datasets == {<<>>} \cup UNION {[1..n -> SeedSamples] : n \in 1..2}

InitSeed ==
    /\ recipes = (1 :> NewRecipe([title |-> T2, comments |-> <<4>>]))
    /\ ingredients = (2 :> [name |-> "n1", allergie |-> "g1"])
    /\ units = <<>>
    /\ users = (3 :> [email |-> "e1", password |-> "p1"])
    /\ comments = (4 :> [user |-> 3, content |-> "x"])
    /\ nextId = 5
    /\ info \in Datasets
    /\ InitRequest

NextSeed ==
    \/ \E err \in BOOLEAN : InitRecipesDelete(err)
    \/ \E err \in BOOLEAN : InitRecipesInsert(err)
    \/ Return
    \/ \E id \in DOMAIN recipes : DeleteRecipe(id, FALSE)
    \/ \E b \in CrudIngredientBodies : PostIngredient(b, FALSE)

SpecSeed == InitSeed /\ [][NextSeed]_vars

\* The stored recipe holds what the dataset's recipe holds in the schema's fields,
\* and nothing else but the array defaults.
SameRecipe(doc, given) ==
    /\ DOMAIN doc = ((DOMAIN given) \cap RecipeFields) \cup {"ingredients", "comments"}
    /\ \A k \in (DOMAIN given) \cap RecipeFields : doc[k] = given[k]
    /\ "ingredients" \notin DOMAIN given => doc.ingredients = {}
    /\ "comments" \notin DOMAIN given => doc.comments = <<>>

\* C6: when GET /initRecipes answers and nobody else wrote meanwhile, the Recipe
\* collection holds one recipe per recipe of the dataset, in the dataset's order,
\* under ids generated by that call, and none of the recipes it held before: the
\* same set whatever it held, so also after a second call; no step of the reload
\* changes the Ingredient, Unit, User or Comment collection.
C6_SeedReload ==
    /\ []((req.route = "GET /initRecipes" /\ pc = "done" /\ ~interfered) =>
            /\ DOMAIN recipes = (nextId - Len(info))..(nextId - 1)
            /\ \A i \in DOMAIN info : SameRecipe(recipes[nextId - Len(info) + i - 1], info[i]))
    /\ [][(last' = NoLast /\ req'.route = "GET /initRecipes")
            => UNCHANGED <<ingredients, units, users, comments>>]_vars

\* A second reload in a row answered: the recipes of the first are gone and the
\* collection again holds the two recipes of the dataset.
C6_Witness ==
    /\ req.route = "GET /initRecipes"
    /\ pc = "done"
    /\ ~interfered
    /\ Len(info) = 2
    /\ info[1] # info[2]
    /\ nextId = 9
    /\ DOMAIN recipes = {7, 8}

====
